---- MODULE Spec2Model ----
(***************************************************************************)
(* A model of the timetable generator of src/code.py.py: the chromosome    *)
(* (grid of time slots with its faculty and room occupancy indices), its   *)
(* random initialisation, calculate_fitness, and the generational loop of  *)
(* generate_timetable (evaluate, rank, select, crossover, mutation,        *)
(* return of the best).  Every random draw of the program is a             *)
(* nondeterministic choice of the model.                                   *)
(***************************************************************************)
EXTENDS Integers, Sequences, FiniteSets, TLC

VARIABLES
    config,       \* the TimetableConfig handed to generate_timetable
    subjects,     \* the list of Subject records
    population,   \* generate_timetable: population (a list of chromosomes)
    generation,   \* generate_timetable: the loop variable of the generation loop
    parents,      \* generate_timetable: parents
    offspring,    \* generate_timetable: offspring
    pair,         \* generate_timetable: <<parent1, parent2>> as indices into parents
    cur,          \* the chromosome under construction (self in __init__; child)
    si,           \* _generate_random_schedule: position in `for subject in self.subjects`
    hours_left,   \* _generate_random_schedule: hours_left, kept per subject
    attempts,     \* _generate_random_schedule: attempts of the current subject
    pc,           \* the position of the program
    err,          \* the exception that ended the run ("" when none)
    best,         \* the chromosome generate_timetable returned
    tops,         \* the top-ranked score of each generation ranked so far
    ev            \* what the last step did

vars == <<config, subjects, population, generation, parents, offspring, pair,
          cur, si, hours_left, attempts, pc, err, best, tops, ev>>

(***************************************************************************)
(* Bounds of the model.  The program runs with population_size = 50,       *)
(* generations = 100 and max_attempts = 1000; the model keeps the same     *)
(* code with smaller values.  A failed attempt changes nothing but the     *)
(* counter, so with MaxAttempts at least the largest hours_per_week of the *)
(* inputs, the schedules an initialisation can end in are the same as with *)
(* 1000 attempts.                                                          *)
(***************************************************************************)
PopulationSize == 4
Generations == 2
MaxAttempts == 3

(***************************************************************************)
(* Subject, TimeSlot, TimetableConfig                                      *)
(***************************************************************************)
\* The value of TimeSlot.subject of an unassigned slot (Python's None).
None == [name |-> "None", code |-> "", faculty |-> "", hours_per_week |-> 0,
         is_lab |-> FALSE, room |-> ""]

Subject(name, code, faculty, hours_per_week, is_lab, room) ==
    [name |-> name, code |-> code, faculty |-> faculty,
     hours_per_week |-> hours_per_week, is_lab |-> is_lab, room |-> room]

\* branch, semester and year are labels the engine never reads.
TimetableConfig(days_per_week, hours_per_day, lunch_break_start, lunch_break_duration) ==
    [days_per_week |-> days_per_week, hours_per_day |-> hours_per_day,
     lunch_break_start |-> lunch_break_start,
     lunch_break_duration |-> lunch_break_duration]

Days(c) == 0 .. (c.days_per_week - 1)
Hours(c) == 0 .. (c.hours_per_day - 1)
Cells(c) == Days(c) \X Hours(c)

\* lunch_break_start <= hour < lunch_break_start + lunch_break_duration
InLunch(c, hour) ==
    /\ c.lunch_break_start <= hour
    /\ hour < c.lunch_break_start + c.lunch_break_duration

(***************************************************************************)
(* TimetableChromosome                                                     *)
(***************************************************************************)
InitializeSlots(c) == [dh \in Cells(c) |-> None]

\* The two schedules are dicts key -> set of (day, hour); the model holds
\* them as sets of <<key, day, hour>>: `key in d and (day, hour) in d[key]`
\* is membership of the triple.
NewChromosome(c) ==
    [slots |-> InitializeSlots(c), fitness |-> 0,
     faculty_schedule |-> {}, room_schedule |-> {}]

NoChromosome ==
    [slots |-> <<>>, fitness |-> 0, faculty_schedule |-> {}, room_schedule |-> {}]

\* _is_slot_available without its lunch test (lines 67-69 dropped)
IsSlotAvailableNoLunch(ch, c, day, hour, subject) ==
    /\ <<subject.faculty, day, hour>> \notin ch.faculty_schedule
    /\ <<subject.room, day, hour>> \notin ch.room_schedule

\* _is_slot_available: the faculty is free, the room is free, and the hour
\* is not a lunch hour; the grid itself is not read.
IsSlotAvailable(ch, c, day, hour, subject) ==
    /\ <<subject.faculty, day, hour>> \notin ch.faculty_schedule
    /\ <<subject.room, day, hour>> \notin ch.room_schedule
    /\ ~InLunch(c, hour)

AddToSchedule(ch, day, hour, subject) ==
    [ch EXCEPT !.faculty_schedule = @ \cup {<<subject.faculty, day, hour>>},
               !.room_schedule = @ \cup {<<subject.room, day, hour>>}]

\* self.slots[day][hour].subject = subject, then _add_to_schedule
Place(ch, day, hour, subject) ==
    AddToSchedule([ch EXCEPT !.slots[<<day, hour>>] = subject], day, hour, subject)

\* all_slots of _generate_random_schedule: the non-lunch (day, hour) pairs
AllSlots(c) == {dh \in Cells(c) : ~InLunch(c, dh[2])}

InitialHoursLeft(subs) == [i \in 1 .. Len(subs) |-> subs[i].hours_per_week]

(***************************************************************************)
(* calculate_fitness                                                       *)
(***************************************************************************)
\* The (day, hour) pairs in the order of `for day ...: for hour ...:`
CellOrder(c) ==
    [k \in 1 .. (c.days_per_week * c.hours_per_day) |->
        <<(k - 1) \div c.hours_per_day, (k - 1) % c.hours_per_day>>]

\* The faculty pass: fitness -= 30 when (day, hour) is already in
\* faculty_slots[faculty]; then the pair is added.
RECURSIVE FacultyPass(_, _, _, _, _)
FacultyPass(slots, order, k, faculty_slots, fitness) ==
    IF k > Len(order) THEN fitness
    ELSE LET dh == order[k]
             s == slots[dh]
             key == <<s.faculty, dh[1], dh[2]>>
         IN  IF s = None
             THEN FacultyPass(slots, order, k + 1, faculty_slots, fitness)
             ELSE FacultyPass(slots, order, k + 1, faculty_slots \cup {key},
                              IF key \in faculty_slots THEN fitness - 30 ELSE fitness)

\* The room pass, the same with slot.subject.room.
RECURSIVE RoomPass(_, _, _, _, _)
RoomPass(slots, order, k, room_slots, fitness) ==
    IF k > Len(order) THEN fitness
    ELSE LET dh == order[k]
             s == slots[dh]
             key == <<s.room, dh[1], dh[2]>>
         IN  IF s = None
             THEN RoomPass(slots, order, k + 1, room_slots, fitness)
             ELSE RoomPass(slots, order, k + 1, room_slots \cup {key},
                           IF key \in room_slots THEN fitness - 30 ELSE fitness)

\* The hours the lunch pass reads: range(lunch_break_start, start + duration)
LunchHours(c) ==
    c.lunch_break_start .. (c.lunch_break_start + c.lunch_break_duration - 1)

\* self.slots[day][hour] of the lunch pass raises IndexError when hour is
\* not an hour of the grid (the inputs have lunch_break_start >= 0).
LunchPassRaises(c) ==
    \E day \in Days(c), hour \in LunchHours(c) : hour >= c.hours_per_day

\* fitness -= 20 for every occupied slot of the lunch hours
LunchPass(slots, c, fitness) ==
    fitness - 20 * Cardinality({dh \in Days(c) \X LunchHours(c) : slots[dh] # None})

\* The lab pass: for hour in range(hours_per_day - 2), a lab slot whose next
\* two slots are empty or hold another subject costs 30.
LabDiscontinuous(slots, day, hour) ==
    LET s == slots[<<day, hour>>]
        s1 == slots[<<day, hour + 1>>]
        s2 == slots[<<day, hour + 2>>]
    IN  /\ s # None
        /\ s.is_lab
        /\ (s1 = None \/ s2 = None \/ s1 # s \/ s2 # s)

LabPass(slots, c, fitness) ==
    fitness - 30 * Cardinality({dh \in Days(c) \X (0 .. (c.hours_per_day - 3)) :
                                   LabDiscontinuous(slots, dh[1], dh[2])})

Max(a, b) == IF a >= b THEN a ELSE b

\* What calculate_fitness returns (and stores in self.fitness) when it does
\* not raise.
CalculateFitness(slots, c) ==
    LET f1 == FacultyPass(slots, CellOrder(c), 1, {}, 100)
        f2 == RoomPass(slots, CellOrder(c), 1, {}, f1)
        f3 == LunchPass(slots, c, f2)
        f4 == LabPass(slots, c, f3)
    IN  Max(0, f4)

(***************************************************************************)
(* The inputs: what main() can hand to generate_timetable.  main() takes   *)
(* days 1..6, hours 1..10, lunch start 0..hours-1, lunch duration 1..2 and *)
(* subjects with 1..10 hours and non-empty fields.                         *)
(***************************************************************************)
Inputs ==
    { \* the lunch window covers the only hour of the day
      [name |-> "AllLunch", config |-> TimetableConfig(1, 1, 0, 1),
       subjects |-> <<Subject("T1", "t1", "F1", 1, FALSE, "R1")>>],
      \* one day, two non-lunch hours, two subjects of one faculty, 3 hours
      [name |-> "ScenarioB", config |-> TimetableConfig(1, 3, 2, 1),
       subjects |-> <<Subject("A", "a", "F1", 2, FALSE, "R1"),
                      Subject("B", "b", "F1", 1, FALSE, "R2")>>],
      \* one day of four hours and a three-hour lab
      [name |-> "OneDayLab", config |-> TimetableConfig(1, 4, 3, 1),
       subjects |-> <<Subject("L3", "l3", "F1", 3, TRUE, "R1")>>],
      \* lunch start = hours - 1 with a duration of 2
      [name |-> "LunchOverflow", config |-> TimetableConfig(1, 2, 1, 2),
       subjects |-> <<Subject("T1", "t1", "F1", 1, FALSE, "R1")>>],
      \* a three-hour lab in a four-hour day with lunch in the last hour
      [name |-> "LabBlock", config |-> TimetableConfig(2, 4, 3, 1),
       subjects |-> <<Subject("L3", "l3", "F1", 3, TRUE, "R1")>>],
      \* a lab and a theory subject sharing neither faculty nor room
      [name |-> "LabAndTheory", config |-> TimetableConfig(2, 3, 1, 2),
       subjects |-> <<Subject("L1", "l1", "F1", 1, TRUE, "R1"),
                      Subject("T2", "t2", "F2", 1, FALSE, "R2")>>],
      \* a two-hour lab over two days
      [name |-> "TwoDayLab", config |-> TimetableConfig(2, 3, 1, 2),
       subjects |-> <<Subject("L2", "l2", "F1", 2, TRUE, "R1")>>] }

Init ==
    /\ \E inp \in Inputs : config = inp.config /\ subjects = inp.subjects
    /\ population = <<>>
    /\ generation = 0
    /\ parents = <<>>
    /\ offspring = <<>>
    /\ pair = <<1, 1>>
    /\ cur = NoChromosome
    /\ si = 1
    /\ hours_left = <<>>
    /\ attempts = 0
    /\ pc = "construct"
    /\ err = ""
    /\ best = NoChromosome
    /\ tops = <<>>
    /\ ev = "inputs"

(***************************************************************************)
(* TimetableConfig.__init__, Subject and the entry of generate_timetable:  *)
(* the values are stored as given, nothing is validated, and the first     *)
(* chromosome of the population starts its construction.                   *)
(***************************************************************************)
Construct ==
    /\ pc = "construct"
    /\ pc' = "populate"
    /\ cur' = NewChromosome(config)
    /\ si' = 1
    /\ hours_left' = InitialHoursLeft(subjects)
    /\ attempts' = 0
    /\ ev' = "constructed"
    /\ UNCHANGED <<config, subjects, population, generation, parents, offspring,
                   pair, err, best, tops>>

(***************************************************************************)
(* _generate_random_schedule, one iteration of the while loop per step     *)
(***************************************************************************)
Building == pc \in {"populate", "child"}

InLoop ==
    /\ Building
    /\ si <= Len(subjects)
    /\ hours_left[si] > 0
    /\ attempts < MaxAttempts

\* random.choice(all_slots) on an empty list raises IndexError
ChoiceFails ==
    /\ InLoop
    /\ AllSlots(config) = {}
    /\ pc' = "error"
    /\ err' = "IndexError"
    /\ attempts' = attempts + 1
    /\ ev' = "raised"
    /\ UNCHANGED <<config, subjects, population, generation, parents, offspring,
                   pair, cur, si, hours_left, best, tops>>

\* the lab branch: a block of three hours starting at the drawn slot
AttemptLab(day, hour) ==
    /\ InLoop
    /\ subjects[si].is_lab /\ hours_left[si] >= 3
    /\ <<day, hour>> \in AllSlots(config)
    /\ attempts' = attempts + 1
    /\ IF /\ hour + 2 < config.hours_per_day
          /\ IsSlotAvailable(cur, config, day, hour, subjects[si])
          /\ IsSlotAvailable(cur, config, day, hour + 1, subjects[si])
          /\ IsSlotAvailable(cur, config, day, hour + 2, subjects[si])
       THEN /\ cur' = Place(Place(Place(cur, day, hour, subjects[si]),
                                  day, hour + 1, subjects[si]),
                            day, hour + 2, subjects[si])
            /\ hours_left' = [hours_left EXCEPT ![si] = @ - 3]
            /\ ev' = "block_placed"
       ELSE /\ UNCHANGED <<cur, hours_left>>
            /\ ev' = "attempt_failed"
    /\ UNCHANGED <<config, subjects, population, generation, parents, offspring,
                   pair, si, pc, err, best, tops>>

\* the else branch: a one-hour class at the drawn slot
AttemptSingle(day, hour) ==
    /\ InLoop
    /\ ~(subjects[si].is_lab /\ hours_left[si] >= 3)
    /\ <<day, hour>> \in AllSlots(config)
    /\ attempts' = attempts + 1
    /\ IF IsSlotAvailable(cur, config, day, hour, subjects[si])
       THEN /\ cur' = Place(cur, day, hour, subjects[si])
            /\ hours_left' = [hours_left EXCEPT ![si] = @ - 1]
            /\ ev' = "placed"
       ELSE /\ UNCHANGED <<cur, hours_left>>
            /\ ev' = "attempt_failed"
    /\ UNCHANGED <<config, subjects, population, generation, parents, offspring,
                   pair, si, pc, err, best, tops>>

\* the while loop of the current subject ends; the for loop takes the next
EndSubject ==
    /\ Building
    /\ si <= Len(subjects)
    /\ (hours_left[si] <= 0 \/ attempts >= MaxAttempts)
    /\ si' = si + 1
    /\ attempts' = 0
    /\ ev' = "subject_done"
    /\ UNCHANGED <<config, subjects, population, generation, parents, offspring,
                   pair, cur, hours_left, pc, err, best, tops>>

\* __init__ returns: the chromosome joins the initial population (and the
\* next one starts), or it is the child of the reproduction step.
FinishChromosome ==
    /\ Building
    /\ si > Len(subjects)
    /\ ev' = "chromosome_built"
    /\ IF pc = "populate"
       THEN /\ population' = Append(population, cur)
            /\ IF Len(population) + 1 < PopulationSize
               THEN /\ cur' = NewChromosome(config)
                    /\ si' = 1
                    /\ hours_left' = InitialHoursLeft(subjects)
                    /\ attempts' = 0
                    /\ pc' = "populate"
               ELSE /\ pc' = IF generation < Generations THEN "evaluate" ELSE "return"
                    /\ UNCHANGED <<cur, si, hours_left, attempts>>
       ELSE /\ pc' = "crossover"
            /\ UNCHANGED <<population, cur, si, hours_left, attempts>>
    /\ UNCHANGED <<config, subjects, generation, parents, offspring, pair, err,
                   best, tops>>

(***************************************************************************)
(* generate_timetable: one generation                                      *)
(***************************************************************************)
\* list.sort(key=fitness, reverse=True): descending and stable (equal keys
\* keep their order).
InsertRanked(ranked, x) ==
    LET k == Cardinality({i \in 1 .. Len(ranked) : ranked[i].fitness >= x.fitness})
    IN  SubSeq(ranked, 1, k) \o <<x>> \o SubSeq(ranked, k + 1, Len(ranked))

RECURSIVE SortFrom(_, _, _)
SortFrom(seq, k, ranked) ==
    IF k > Len(seq) THEN ranked
    ELSE SortFrom(seq, k + 1, InsertRanked(ranked, seq[k]))

SortByFitness(seq) == SortFrom(seq, 1, <<>>)

\* A selection that keeps the last half of the ranking instead of the first
ParentsBottomHalf(ranked) ==
    SubSeq(ranked, Len(ranked) - (PopulationSize \div 2) + 1, Len(ranked))

\* parents = population[:population_size // 2]
Parents(ranked) == SubSeq(ranked, 1, PopulationSize \div 2)

\* chromosome.calculate_fitness() for every chromosome
Evaluated(pop) ==
    [i \in 1 .. Len(pop) |->
        [pop[i] EXCEPT !.fitness = CalculateFitness(pop[i].slots, config)]]

\* Evaluate, rank, stop early on a perfect score, else select the parents.
\* calculate_fitness stores the score in the chromosome object, and the lists
\* `parents` and `offspring` of the previous generation and the variable
\* holding the chromosome built last hold those same objects (population is
\* parents + offspring, or the initial list whose last element was built
\* last): their stored fitness is the evaluated one too.
EvaluateAndRank ==
    /\ pc = "evaluate"
    /\ IF LunchPassRaises(config)
       THEN /\ pc' = "error"
            /\ err' = "IndexError"
            /\ ev' = "raised"
            /\ UNCHANGED <<population, parents, offspring, cur, tops>>
       ELSE LET ranked == SortByFitness(Evaluated(population))
            IN  /\ population' = ranked
                /\ cur' = [cur EXCEPT !.fitness = CalculateFitness(cur.slots, config)]
                /\ tops' = Append(tops, ranked[1].fitness)
                /\ err' = err
                /\ ev' = "ranked"
                /\ IF ranked[1].fitness = 100
                   THEN /\ pc' = "return"
                        /\ parents' = Evaluated(parents)
                        /\ offspring' = Evaluated(offspring)
                   ELSE /\ parents' = Parents(ranked)
                        /\ offspring' = <<>>
                        /\ pc' = "reproduce"
    /\ UNCHANGED <<config, subjects, generation, pair, si, hours_left,
                   attempts, best>>

\* random.sample(parents, 2), then child = TimetableChromosome(config, subjects)
\* starts its construction.
SelectParents ==
    /\ pc = "reproduce"
    /\ Len(offspring) < PopulationSize - Len(parents)
    /\ IF Len(parents) < 2
       THEN /\ pc' = "error"
            /\ err' = "ValueError"
            /\ ev' = "raised"
            /\ UNCHANGED <<pair, cur, si, hours_left, attempts>>
       ELSE /\ \E i \in 1 .. Len(parents), j \in 1 .. Len(parents) :
                 i # j /\ pair' = <<i, j>>
            /\ cur' = NewChromosome(config)
            /\ si' = 1
            /\ hours_left' = InitialHoursLeft(subjects)
            /\ attempts' = 0
            /\ pc' = "child"
            /\ err' = err
            /\ ev' = "parents_drawn"
    /\ UNCHANGED <<config, subjects, population, generation, parents, offspring,
                   best, tops>>

\* "Recalculate schedules based on crossover": both schedules are emptied and
\* every occupied slot is added again.
RebuildSchedules(ch) ==
    LET occupied == {dh \in DOMAIN ch.slots : ch.slots[dh] # None}
    IN  [ch EXCEPT
            !.faculty_schedule = {<<ch.slots[dh].faculty, dh[1], dh[2]>> : dh \in occupied},
            !.room_schedule = {<<ch.slots[dh].room, dh[1], dh[2]>> : dh \in occupied}]

\* The days before the crossover point come from parent1, the others from
\* parent2.
CrossedSlots(p1, p2, point) ==
    [dh \in Cells(config) |-> IF dh[1] < point THEN p1.slots[dh] ELSE p2.slots[dh]]

\* random.randint(1, days_per_week - 1) raises ValueError on an empty range.
Crossover ==
    /\ pc = "crossover"
    /\ IF config.days_per_week - 1 < 1
       THEN /\ pc' = "error"
            /\ err' = "ValueError"
            /\ ev' = "raised"
            /\ cur' = cur
       ELSE /\ \E point \in 1 .. (config.days_per_week - 1) :
                 cur' = RebuildSchedules(
                     [cur EXCEPT !.slots = CrossedSlots(parents[pair[1]],
                                                        parents[pair[2]], point)])
            /\ pc' = "mutate"
            /\ err' = err
            /\ ev' = "crossed"
    /\ UNCHANGED <<config, subjects, population, generation, parents, offspring,
                   pair, si, hours_left, attempts, best, tops>>

\* can_swap of the mutation
CanSwap(ch, c1, c2) ==
    LET slot1 == ch.slots[c1]
        slot2 == ch.slots[c2]
    IN  /\ <<slot1.faculty, c2[1], c2[2]>> \notin ch.faculty_schedule
        /\ <<slot1.room, c2[1], c2[2]>> \notin ch.room_schedule
        /\ <<slot2.faculty, c1[1], c1[2]>> \notin ch.faculty_schedule
        /\ <<slot2.room, c1[1], c1[2]>> \notin ch.room_schedule

\* The four updates of one schedule, in the order of the code; set.remove
\* raises KeyError when the pair is not in the set.
SwapRaises(schedule, k1, k2, c1, c2) ==
    \/ <<k1, c1[1], c1[2]>> \notin schedule
    \/ <<k2, c2[1], c2[2]>> \notin
          ((schedule \ {<<k1, c1[1], c1[2]>>}) \cup {<<k1, c2[1], c2[2]>>})

SwapSchedule(schedule, k1, k2, c1, c2) ==
    ((((schedule \ {<<k1, c1[1], c1[2]>>}) \cup {<<k1, c2[1], c2[2]>>})
        \ {<<k2, c2[1], c2[2]>>}) \cup {<<k2, c1[1], c1[2]>>})

Swapped(ch, c1, c2) ==
    LET slot1 == ch.slots[c1]
        slot2 == ch.slots[c2]
    IN  [ch EXCEPT
            !.slots = [@ EXCEPT ![c1] = slot2, ![c2] = slot1],
            !.faculty_schedule = SwapSchedule(@, slot1.faculty, slot2.faculty, c1, c2),
            !.room_schedule = SwapSchedule(@, slot1.room, slot2.room, c1, c2)]

\* random.random() >= mutation_rate: the child joins the offspring as it is
MutateSkip ==
    /\ pc = "mutate"
    /\ offspring' = Append(offspring, cur)
    /\ pc' = "reproduce"
    /\ ev' = "no_mutation"
    /\ UNCHANGED <<config, subjects, population, generation, parents, pair, cur,
                   si, hours_left, attempts, err, best, tops>>

\* random.random() < mutation_rate: two random slots are drawn and swapped
\* when both hold a subject and can_swap; then the child joins the offspring.
MutateSwap(c1, c2) ==
    /\ pc = "mutate"
    /\ c1 \in Cells(config) /\ c2 \in Cells(config)
    /\ LET slot1 == cur.slots[c1]
           slot2 == cur.slots[c2]
       IN  IF slot1 # None /\ slot2 # None /\ CanSwap(cur, c1, c2)
           THEN IF \/ SwapRaises(cur.faculty_schedule, slot1.faculty, slot2.faculty, c1, c2)
                   \/ SwapRaises(cur.room_schedule, slot1.room, slot2.room, c1, c2)
                THEN /\ pc' = "error"
                     /\ err' = "KeyError"
                     /\ ev' = "raised"
                     /\ UNCHANGED <<cur, offspring>>
                ELSE /\ cur' = Swapped(cur, c1, c2)
                     /\ offspring' = Append(offspring, Swapped(cur, c1, c2))
                     /\ pc' = "reproduce"
                     /\ err' = err
                     /\ ev' = "swapped"
           ELSE /\ offspring' = Append(offspring, cur)
                /\ pc' = "reproduce"
                /\ ev' = "swap_skipped"
                /\ UNCHANGED <<cur, err>>
    /\ UNCHANGED <<config, subjects, population, generation, parents, pair, si,
                   hours_left, attempts, best, tops>>

\* population = parents + offspring, and the generation loop goes on or ends
Advance ==
    /\ pc = "reproduce"
    /\ Len(offspring) >= PopulationSize - Len(parents)
    /\ population' = parents \o offspring
    /\ generation' = generation + 1
    /\ pc' = IF generation + 1 < Generations THEN "evaluate" ELSE "return"
    /\ ev' = "advanced"
    /\ UNCHANGED <<config, subjects, parents, offspring, pair, cur, si,
                   hours_left, attempts, err, best, tops>>

\* max(population, key=fitness): the first chromosome of the largest stored
\* fitness
BestOf(pop) ==
    LET i == CHOOSE i \in 1 .. Len(pop) :
                 /\ \A j \in 1 .. Len(pop) : pop[j].fitness <= pop[i].fitness
                 /\ \A j \in 1 .. (i - 1) : pop[j].fitness < pop[i].fitness
    IN  pop[i]

ReturnBest ==
    /\ pc = "return"
    /\ best' = BestOf(population)
    /\ pc' = "done"
    /\ ev' = "returned"
    /\ UNCHANGED <<config, subjects, population, generation, parents, offspring,
                   pair, cur, si, hours_left, attempts, err, tops>>

Next ==
    \/ Construct
    \/ ChoiceFails
    \/ \E day \in Days(config), hour \in Hours(config) : AttemptLab(day, hour)
    \/ \E day \in Days(config), hour \in Hours(config) : AttemptSingle(day, hour)
    \/ EndSubject
    \/ FinishChromosome
    \/ EvaluateAndRank
    \/ SelectParents
    \/ Crossover
    \/ MutateSkip
    \/ \E c1 \in Cells(config), c2 \in Cells(config) : MutateSwap(c1, c2)
    \/ Advance
    \/ ReturnBest

Spec == Init /\ [][Next]_vars

(***************************************************************************)
(* calculate_fitness as a function of the grid alone: a second             *)
(* specification draws any grid over a small week, evaluates it, assigns   *)
(* one slot (TimeSlot.subject = subject) in a copy and evaluates the copy. *)
(* population[1] is the grid before the assignment, population[2] after.   *)
(***************************************************************************)
FitConfig == TimetableConfig(2, 2, 1, 1)

FitSubjects ==
    <<Subject("P", "p", "F1", 1, FALSE, "R1"),
      Subject("Q", "q", "F1", 1, FALSE, "R2"),
      Subject("R", "r", "F2", 1, FALSE, "R1")>>

Range(seq) == {seq[i] : i \in 1 .. Len(seq)}

InitFit ==
    /\ config = FitConfig
    /\ subjects = FitSubjects
    /\ \E g \in [Cells(FitConfig) -> Range(FitSubjects) \cup {None}] :
           population = <<[NewChromosome(FitConfig) EXCEPT !.slots = g]>>
    /\ generation = 0
    /\ parents = <<>>
    /\ offspring = <<>>
    /\ pair = <<1, 1>>
    /\ cur = NoChromosome
    /\ si = 1
    /\ hours_left = <<>>
    /\ attempts = 0
    /\ pc = "fit"
    /\ err = ""
    /\ best = NoChromosome
    /\ tops = <<>>
    /\ ev = "inputs"

\* calculate_fitness of the newest grid
FitEvaluate ==
    /\ pc \in {"fit", "fit_assigned"}
    /\ population' = [population EXCEPT ![Len(population)].fitness =
                          CalculateFitness(population[Len(population)].slots, config)]
    /\ pc' = IF pc = "fit" THEN "fit_base" ELSE "fit_done"
    /\ ev' = "evaluated"
    /\ UNCHANGED <<config, subjects, generation, parents, offspring, pair, cur,
                   si, hours_left, attempts, err, best, tops>>

\* slots[day][hour].subject = subject in a copy of the grid: a slot holds one
\* subject, so the assignment replaces what the slot held.
FitAssign(dh, subject) ==
    /\ pc = "fit_base"
    /\ population[1].slots[dh] # subject
    /\ population' = Append(population,
                            [population[1] EXCEPT !.slots[dh] = subject, !.fitness = 0])
    /\ pc' = "fit_assigned"
    /\ ev' = "assigned"
    /\ UNCHANGED <<config, subjects, generation, parents, offspring, pair, cur,
                   si, hours_left, attempts, err, best, tops>>

NextFit ==
    \/ FitEvaluate
    \/ \E dh \in Cells(config), subject \in Range(subjects) : FitAssign(dh, subject)

SpecFit == InitFit /\ [][NextFit]_vars

(***************************************************************************)
(* Properties                                                              *)
(***************************************************************************)
\* The validity of a configuration and of a subject list, as the
\* specification of the program states it.
ValidConfig(c) ==
    /\ c.days_per_week >= 1
    /\ c.hours_per_day >= 1
    /\ 0 <= c.lunch_break_start
    /\ c.lunch_break_start + c.lunch_break_duration <= c.hours_per_day

ValidSubjects(subs) ==
    /\ Len(subs) >= 1
    /\ \A i \in 1 .. Len(subs) : subs[i].hours_per_week >= 1

\* Every chromosome the program holds.
Schedules ==
    Range(population) \cup Range(parents) \cup Range(offspring)
        \cup (IF pc # "construct" /\ cur # NoChromosome THEN {cur} ELSE {})
        \cup (IF pc = "done" THEN {best} ELSE {})

\* C1: for every valid configuration and non-empty subject list with positive
\* hours, generate_timetable raises no error, runs at most `generations`
\* iterations and returns a schedule whose fitness is in [0, 100].
C1_TerminatesNormally ==
    (ValidConfig(config) /\ ValidSubjects(subjects)) =>
        /\ pc # "error"
        /\ generation <= Generations
        /\ (pc = "done" => best.fitness \in 0 .. 100)

\* C2: in every schedule, after every change of its grid, a slot (d, h) holds
\* subject S if and only if (d, h) is in faculty_schedule[S.faculty] and in
\* room_schedule[S.room].
C2_OccupancyInvariant ==
    \A ch \in Schedules : \A dh \in DOMAIN ch.slots : \A i \in 1 .. Len(subjects) :
        (ch.slots[dh] = subjects[i]) <=>
            (/\ <<subjects[i].faculty, dh[1], dh[2]>> \in ch.faculty_schedule
             /\ <<subjects[i].room, dh[1], dh[2]>> \in ch.room_schedule)

\* The hours of the maximal run of one subject around (day, hour).
RunOf(slots, c, day, hour) ==
    {h \in Hours(c) :
        \A x \in (IF h <= hour THEN h .. hour ELSE hour .. h) :
            slots[<<day, x>>] = slots[<<day, hour>>]}

\* A grid with no occupied lunch slot in which every lab occupies only
\* complete blocks of three contiguous hours of one day.  (A slot holds one
\* subject, so no grid has a faculty or room overlap.)
CleanGrid(slots, c) ==
    /\ \A dh \in Cells(c) : InLunch(c, dh[2]) => slots[dh] = None
    /\ \A dh \in Cells(c) :
           (slots[dh] # None /\ slots[dh].is_lab) =>
               Cardinality(RunOf(slots, c, dh[1], dh[2])) % 3 = 0

\* C3: calculate_fitness returns exactly 100 for every clean grid, wherever
\* in the day a lab block starts.
C3_CleanGridScores100 ==
    (pc # "construct" /\ ~LunchPassRaises(config)) =>
        \A ch \in Schedules :
            CleanGrid(ch.slots, config) => CalculateFitness(ch.slots, config) = 100

\* Scenario B: one day, exactly two non-lunch hours, two subjects of one
\* faculty whose hours sum to more than two.
IsScenarioB ==
    /\ config.days_per_week = 1
    /\ Cardinality(AllSlots(config)) = 2
    /\ Len(subjects) = 2
    /\ subjects[1].faculty = subjects[2].faculty
    /\ subjects[1].hours_per_week + subjects[2].hours_per_week > 2

\* C4: in scenario B no schedule of any generation has fitness 100 and the
\* returned fitness is strictly less than 100.
C4_ScenarioBNeverPerfect ==
    IsScenarioB =>
        /\ \A ch \in Schedules : ch.fitness # 100
        /\ (pc = "done" => best.fitness < 100)

\* The slot assigned between the two grids books a second subject of the
\* same faculty (room) at a (day, hour) another subject already held.
FacultyDoubleBooked(dh) ==
    /\ population[1].slots[dh] # None
    /\ population[2].slots[dh] # population[1].slots[dh]
    /\ population[2].slots[dh].faculty = population[1].slots[dh].faculty

RoomDoubleBooked(dh) ==
    /\ population[1].slots[dh] # None
    /\ population[2].slots[dh] # population[1].slots[dh]
    /\ population[2].slots[dh].room = population[1].slots[dh].room

\* C5: one faculty double-booking (symmetrically, one room double-booking)
\* introduced into a grid lowers what calculate_fitness returns by exactly 30.
C5_DoubleBookingCosts30 ==
    pc = "fit_done" =>
        \A dh \in Cells(config) :
            (FacultyDoubleBooked(dh) \/ RoomDoubleBooked(dh)) =>
                population[2].fitness = population[1].fitness - 30

\* C6: a configuration whose lunch window is not inside the day, or with
\* non-positive days or hours, and a subject with non-positive hours are
\* rejected at construction: none reaches the population initialisation or
\* calculate_fitness.
C6_InvalidConfigRejected ==
    pc # "construct" => (ValidConfig(config) /\ ValidSubjects(subjects))

\* C7: the returned schedule has the largest score of the final population,
\* the score being what calculate_fitness computes from the grid.
C7_ReturnsMaxOfFinalPopulation ==
    pc = "done" =>
        \A i \in 1 .. Len(population) :
            CalculateFitness(best.slots, config)
                >= CalculateFitness(population[i].slots, config)

\* C8: after the random initialisation of a schedule, every subject whose
\* placement loop ended with no hours remaining holds exactly hours_per_week
\* slots of the grid.
C8_PlacedHoursAreHeld ==
    (Building /\ si > Len(subjects)) =>
        \A i \in 1 .. Len(subjects) :
            hours_left[i] = 0 =>
                Cardinality({dh \in Cells(config) : cur.slots[dh] = subjects[i]})
                    = subjects[i].hours_per_week

\* C9: for a valid configuration no slot of the lunch window is occupied in
\* any schedule during generate_timetable nor in the returned one, so the
\* lunch pass of calculate_fitness subtracts nothing.
C9_LunchNeverOccupied ==
    ValidConfig(config) =>
        \A ch \in Schedules :
            /\ \A dh \in Cells(config) : InLunch(config, dh[2]) => ch.slots[dh] = None
            /\ LunchPass(ch.slots, config, 0) = 0

\* A mutation swap was performed on a child in a week with a lunch window.
C9_Witness ==
    /\ ev = "swapped"
    /\ ValidConfig(config)
    /\ config.lunch_break_duration > 0
    /\ \E dh \in Cells(config) : cur.slots[dh] # None
    /\ cur \in Range(offspring)

\* C10: the top-ranked score never decreases from one generation to the next,
\* and the returned fitness is at least the best score of the initial
\* population.
C10_BestNeverDecreases ==
    /\ \A g \in 1 .. (Len(tops) - 1) : tops[g + 1] >= tops[g]
    /\ (pc = "done" /\ Len(tops) >= 1) => best.fitness >= tops[1]

\* A run that reproduced, ranked a second generation with a strictly better
\* top score and returned.
C10_Witness ==
    /\ pc = "done"
    /\ Len(tops) >= 2
    /\ tops[2] > tops[1]
    /\ best.fitness = tops[Len(tops)]

====
